---- MODULE Spec2Model ----
(***************************************************************************)
(* front-net-ctrl: a command dispatcher that validates mode-specific       *)
(* arguments and issues a fixed sequence of `tc` / `ip mptcp` commands.    *)
(*                                                                         *)
(* One run of the program is a record (program counter, locals of main and *)
(* of the mode handler, the two output streams, the exit code) plus a log  *)
(* of the external commands it issued.  The variable `run` holds one such  *)
(* record per run: Spec has a single run; SpecNI has two runs over the     *)
(* same argv and the same environment (same launch results and stderr      *)
(* texts per issued command) whose commands' exit statuses are chosen      *)
(* independently.                                                          *)
(***************************************************************************)
EXTENDS Integers, Sequences, FiniteSets, TLC

VARIABLES argv, env, run

vars == <<argv, env, run>>

-----------------------------------------------------------------------------
(* Bounds *)

\* --bw1/--bw2 numeric inputs range over -1..MaxBw
MaxBw == 2

\* exit statuses of the invoked tools range over 0..MaxReturnCode
MaxReturnCode == 1

-----------------------------------------------------------------------------
(* Python values *)

\* Optional values: None is <<>>, a present value v is <<v>>
None == <<>>

Some(v) == <<v>>

\* truthiness of an Optional[str]: None and "" are falsy
Truthy(v) == v # None /\ v[1] # ""

\* ' '.join(cmd)
RECURSIVE Join(_)
Join(cmd) ==
    IF Len(cmd) = 0 THEN ""
    ELSE IF Len(cmd) = 1 THEN cmd[1]
    ELSE cmd[1] \o " " \o Join(Tail(cmd))

-----------------------------------------------------------------------------
(* Inputs *)

\* choices of -m/--mode
Modes == {"bandwidth", "mptcp-client", "mptcp-server"}

ModeInputs == {None} \cup {Some(m) : m \in Modes \cup {"bogus"}}

Iface1Inputs == {None, Some(""), Some("eth0")}

Iface2Inputs == {None, Some(""), Some("eth1")}

BwInputs == {None, Some(""), Some("abc")} \cup {Some(ToString(n)) : n \in (-1)..MaxBw}

SubflowIpInputs == {None, Some(""), Some("192.168.1.100")}

SubflowIfaceInputs == {None, Some(""), Some("eth0")}

ArgvInputs ==
    [mode : ModeInputs, iface1 : Iface1Inputs, bw1 : BwInputs,
     iface2 : Iface2Inputs, bw2 : BwInputs,
     subflow_ip : SubflowIpInputs, subflow_iface : SubflowIfaceInputs]

-----------------------------------------------------------------------------
(* The external process-execution primitive *)

\* exceptions subprocess.run raises when the tool cannot be started; both are
\* subclasses of OSError
LaunchErrors == {"FileNotFoundError", "PermissionError"}

StderrTexts == {"", "RTNETLINK answers: No such file or directory"}

\* what the environment decides for one issued command, apart from its exit
\* status: the launch result and the captured stderr text
EnvOutcomes ==
    {[raised |-> "", stderr |-> t] : t \in StderrTexts}
        \cup {[raised |-> e, stderr |-> ""] : e \in LaunchErrors}

ReturnCodes == 0..MaxReturnCode

\* subprocess.run(cmd, capture_output=True, text=True): either raises
\* (raised # "") or returns a CompletedProcess with stderr and returncode
SubprocessRun(cmd, oc, rc) ==
    [raised |-> oc.raised, stderr |-> oc.stderr, returncode |-> rc]

\* the classes an `except subprocess.SubprocessError` clause catches
IsSubprocessError(cls) ==
    cls \in {"SubprocessError", "CalledProcessError", "TimeoutExpired"}

\* faulty variant of StderrReported: the exit status counts as an error signal too
StderrReported_OrReturncode(res) == res.stderr # "" \/ res.returncode # 0

\* `result.stderr` used as a condition: a non-empty string is true
StderrReported(res) == res.stderr # ""

-----------------------------------------------------------------------------
(* Command construction *)

TcCmd(op, iface, bandwidth) ==
    <<"tc", "qdisc", op, "dev", iface, "root", "tbf",
      "rate", bandwidth \o "mbit", "burst", "256mbit", "latency", "600ms">>

ChangeCmd(iface, bandwidth) == TcCmd("change", iface, bandwidth)

AddCmd(iface, bandwidth) == TcCmd("add", iface, bandwidth)

SubflowCmd == <<"ip", "mptcp", "limits", "set", "subflow", "2">>

ClientCommands ==
    <<SubflowCmd, <<"ip", "mptcp", "limits", "set", "add_addr_accepted", "2">>>>

ServerCommands(args) ==
    <<SubflowCmd,
      <<"ip", "mptcp", "endpoint", "add", args.subflow_ip[1],
        "dev", args.subflow_iface[1], "signal">>>>

\* the interface and bandwidth handle_bandwidth_mode passes on its i-th call
IfaceArg(args, i) == IF i = 1 THEN args.iface1[1] ELSE args.iface2[1]

\* faulty variant of BwArg: args.bw1 passed for both interfaces
BwArg_AlwaysFirst(args, i) == args.bw1[1]

BwArg(args, i) == IF i = 1 THEN args.bw1[1] ELSE args.bw2[1]

-----------------------------------------------------------------------------
(* State of one run *)

NoResult == [raised |-> "", stderr |-> "", returncode |-> 0]

InitRun ==
    [pc |-> "parse",
     idx |-> 0,              \* interface number / loop index in the handler
     result |-> NoResult,    \* the local `result` of the handler
     hsuccess |-> TRUE,      \* the local `success` of the handler
     success |-> None,       \* `success` of main
     log |-> <<>>,           \* external commands issued so far
     stdout |-> <<>>,
     stderr |-> <<>>,
     traceback |-> FALSE,    \* an exception escaped main
     exitCode |-> None]

\* one issued command: argv, what happened, which branch the caller took
Entry(cmd, res, branch) ==
    [cmd |-> cmd, raised |-> res.raised, stderr |-> res.stderr, branch |-> branch]

\* print(line)
WriteStdout(st, line) == [st EXCEPT !.stdout = Append(@, line)]

\* faulty variant of WriteStderr: `file=sys.stderr` left out
WriteStderr_ToStdout(st, line) == [st EXCEPT !.stdout = Append(@, line)]

\* print(line, file=sys.stderr)
WriteStderr(st, line) == [st EXCEPT !.stderr = Append(@, line)]

\* the command was issued: it joins the log of external commands
Issue(st, cmd, res, branch) == [st EXCEPT !.log = Append(@, Entry(cmd, res, branch))]

\* `result = subprocess.run(...)` returned: the local is bound
Bind(st, res) == [st EXCEPT !.result = res]

-----------------------------------------------------------------------------
(* main: argument parsing and validation *)

ModeRequiredMsg == "the following arguments are required: -m/--mode"

InvalidChoiceMsg == "argument -m/--mode: invalid choice"

BandwidthUsageMsg ==
    "bandwidth mode requires --iface1, --bw1, --iface2, and --bw2 arguments"

ServerUsageMsg ==
    "mptcp-server mode requires --subflow-ip and --subflow-iface arguments"

\* parser.error(...): usage message on stderr, exit status 2
ParserError(st, msg) ==
    [st EXCEPT !.pc = "done", !.stderr = Append(@, "usage: " \o msg),
               !.exitCode = Some(2)]

\* parser.parse_args(): -m is required and must be one of the choices
ParseArgsStep(st, args) ==
    IF args.mode = None
    THEN ParserError(st, ModeRequiredMsg)
    ELSE IF args.mode[1] \notin Modes
    THEN ParserError(st, InvalidChoiceMsg)
    ELSE [st EXCEPT !.pc = "validate"]

\* faulty variant of RequiredPresent: tests `is not None` instead of truthiness
RequiredPresent_NotNone(args) ==
    CASE args.mode[1] = "bandwidth" ->
            /\ args.iface1 # None /\ args.bw1 # None
            /\ args.iface2 # None /\ args.bw2 # None
      [] args.mode[1] = "mptcp-server" ->
            args.subflow_ip # None /\ args.subflow_iface # None
      [] OTHER -> TRUE

\* the fields the selected mode requires are all present and non-empty
RequiredPresent(args) ==
    CASE args.mode[1] = "bandwidth" ->
            /\ Truthy(args.iface1) /\ Truthy(args.bw1)
            /\ Truthy(args.iface2) /\ Truthy(args.bw2)
      [] args.mode[1] = "mptcp-server" ->
            ~(~Truthy(args.subflow_ip) \/ ~Truthy(args.subflow_iface))
      [] OTHER -> TRUE

ValidateStep(st, args) ==
    IF RequiredPresent(args)
    THEN [st EXCEPT !.pc = "dispatch"]
    ELSE IF args.mode[1] = "bandwidth"
    THEN ParserError(st, BandwidthUsageMsg)
    ELSE ParserError(st, ServerUsageMsg)

\* success = False, then the call of the mode's handler up to its first command
DispatchStep(st, args) ==
    CASE args.mode[1] = "bandwidth" ->
            [st EXCEPT !.success = Some(FALSE), !.hsuccess = TRUE,
                       !.idx = 1, !.pc = "change"]
      [] args.mode[1] = "mptcp-client" ->
            [WriteStdout(st, "Configuring MPTCP client mode...")
                EXCEPT !.success = Some(FALSE), !.hsuccess = TRUE,
                       !.idx = 1, !.pc = "client"]
      [] args.mode[1] = "mptcp-server" ->
            [WriteStdout(st, "Configuring MPTCP server mode...")
                EXCEPT !.success = Some(FALSE), !.hsuccess = TRUE,
                       !.idx = 1, !.pc = "server"]

-----------------------------------------------------------------------------
(* handle_bandwidth_mode / configure_interface *)

\* faulty variant of InterfaceReturned: `success = configure_interface(...)`
InterfaceReturned_LastWins(st, ret) ==
    [st EXCEPT !.hsuccess = ret,
               !.idx = @ + 1,
               !.pc = IF st.idx = 1 THEN "change" ELSE "return"]

\* configure_interface returned `ret` to handle_bandwidth_mode:
\* `if not configure_interface(...): success = False`, then the next call
InterfaceReturned(st, ret) ==
    [st EXCEPT !.hsuccess = IF ret THEN @ ELSE FALSE,
               !.idx = @ + 1,
               !.pc = IF st.idx = 1 THEN "change" ELSE "return"]

\* first half of configure_interface: the `tc qdisc change` attempt
ConfigureChange(st, iface, bandwidth, oc, rc) ==
    LET cmd == ChangeCmd(iface, bandwidth)
        res == SubprocessRun(cmd, oc, rc)
    IN  IF res.raised # ""
        THEN IF IsSubprocessError(res.raised)
             THEN [Issue(st, cmd, res, "failure") EXCEPT !.pc = "add"]
             ELSE [Issue(st, cmd, res, "propagated") EXCEPT !.pc = "raised"]
        ELSE IF ~StderrReported(res)
        THEN InterfaceReturned(
                WriteStdout(Bind(Issue(st, cmd, res, "success"), res),
                      "Successfully modified bandwidth for " \o iface),
                TRUE)
        ELSE [Bind(Issue(st, cmd, res, "failure"), res) EXCEPT !.pc = "add"]

\* second half of configure_interface: the `tc qdisc add` fallback
ConfigureAdd(st, iface, bandwidth, oc, rc) ==
    LET cmd == AddCmd(iface, bandwidth)
        res == SubprocessRun(cmd, oc, rc)
    IN  IF res.raised # ""
        THEN IF IsSubprocessError(res.raised)
             THEN InterfaceReturned(
                     WriteStderr(Issue(st, cmd, res, "failure"),
                              "Error executing command for " \o iface
                                  \o ": " \o res.raised),
                     FALSE)
             ELSE [Issue(st, cmd, res, "propagated") EXCEPT !.pc = "raised"]
        ELSE IF ~StderrReported(res)
        THEN InterfaceReturned(
                WriteStdout(Bind(Issue(st, cmd, res, "success"), res),
                      "Successfully added bandwidth limit for " \o iface),
                TRUE)
        ELSE InterfaceReturned(
                WriteStderr(Bind(Issue(st, cmd, res, "failure"), res),
                         "Error configuring " \o iface \o ": " \o res.stderr),
                FALSE)

-----------------------------------------------------------------------------
(* handle_mptcp_client_mode / handle_mptcp_server_mode *)

\* the end of one iteration of `for cmd in commands`
NextCommand(st, commands) ==
    [st EXCEPT !.idx = @ + 1,
               !.pc = IF st.idx = Len(commands) THEN "return" ELSE @]

\* `success = False` in the handler
Failed(st) == [st EXCEPT !.hsuccess = FALSE]

\* one iteration of `for cmd in commands` (the two handlers share the body)
MptcpLoopBody(st, commands, oc, rc) ==
    LET cmd == commands[st.idx]
        res == SubprocessRun(cmd, oc, rc)
    IN  IF res.raised # ""
        THEN IF IsSubprocessError(res.raised)
             THEN NextCommand(
                     Failed(WriteStderr(Issue(st, cmd, res, "failure"),
                                     "Command failed " \o Join(cmd)
                                         \o ": " \o res.raised)),
                     commands)
             ELSE [Issue(st, cmd, res, "propagated") EXCEPT !.pc = "raised"]
        ELSE IF StderrReported(res)
        THEN NextCommand(
                Failed(WriteStderr(Bind(Issue(st, cmd, res, "failure"), res),
                                "Error executing " \o Join(cmd)
                                    \o ": " \o res.stderr)),
                commands)
        ELSE NextCommand(
                WriteStdout(Bind(Issue(st, cmd, res, "success"), res),
                      "Successfully executed: " \o Join(cmd)),
                commands)

-----------------------------------------------------------------------------
(* main: the handler's return and the exit *)

\* faulty variant of HandlerReturnStep: the handler ends with `return True`
HandlerReturnStep_ReturnsTrue(st) == [st EXCEPT !.success = Some(TRUE), !.pc = "exit"]

\* `return success` of the handler, assigned to main's `success`
HandlerReturnStep(st) == [st EXCEPT !.success = Some(st.hsuccess), !.pc = "exit"]

\* faulty variant of SysExitStep: `sys.exit(success)`, where True exits 1 and False 0
SysExitStep_PassesBool(st) ==
    [st EXCEPT !.exitCode = Some(IF st.success[1] THEN 1 ELSE 0), !.pc = "done"]

\* sys.exit(0 if success else 1)
SysExitStep(st) ==
    [st EXCEPT !.exitCode = Some(IF st.success[1] THEN 0 ELSE 1), !.pc = "done"]

\* an exception left main(): the interpreter prints a traceback and exits 1
UncaughtStep(st) ==
    [st EXCEPT !.traceback = TRUE, !.exitCode = Some(1), !.pc = "done"]

-----------------------------------------------------------------------------
(* Actions *)

Runs == DOMAIN run

\* the runs of a specification execute one after the other
Scheduled(r) == \A q \in Runs : q < r => run[q].pc = "done"

\* the environment's decision for the next command of run r: the one already
\* taken for that position of the command sequence, or a fresh one
EnvChoices(r) ==
    IF Len(run[r].log) < Len(env) THEN {env[Len(run[r].log) + 1]} ELSE EnvOutcomes

Reveal(r, oc) == IF Len(run[r].log) < Len(env) THEN env ELSE Append(env, oc)

Internal(r, new) ==
    /\ run' = [run EXCEPT ![r] = new]
    /\ UNCHANGED <<argv, env>>

ParseArgs ==
    \E r \in Runs :
        /\ Scheduled(r) /\ run[r].pc = "parse"
        /\ Internal(r, ParseArgsStep(run[r], argv))

Validate ==
    \E r \in Runs :
        /\ Scheduled(r) /\ run[r].pc = "validate"
        /\ Internal(r, ValidateStep(run[r], argv))

Dispatch ==
    \E r \in Runs :
        /\ Scheduled(r) /\ run[r].pc = "dispatch"
        /\ Internal(r, DispatchStep(run[r], argv))

TcChange ==
    \E r \in Runs :
        /\ Scheduled(r) /\ run[r].pc = "change"
        /\ \E oc \in EnvChoices(r), rc \in ReturnCodes :
            /\ run' = [run EXCEPT ![r] =
                    ConfigureChange(run[r], IfaceArg(argv, run[r].idx),
                                    BwArg(argv, run[r].idx), oc, rc)]
            /\ env' = Reveal(r, oc)
            /\ UNCHANGED argv

TcAdd ==
    \E r \in Runs :
        /\ Scheduled(r) /\ run[r].pc = "add"
        /\ \E oc \in EnvChoices(r), rc \in ReturnCodes :
            /\ run' = [run EXCEPT ![r] =
                    ConfigureAdd(run[r], IfaceArg(argv, run[r].idx),
                                 BwArg(argv, run[r].idx), oc, rc)]
            /\ env' = Reveal(r, oc)
            /\ UNCHANGED argv

MptcpClientCommand ==
    \E r \in Runs :
        /\ Scheduled(r) /\ run[r].pc = "client"
        /\ \E oc \in EnvChoices(r), rc \in ReturnCodes :
            /\ run' = [run EXCEPT ![r] = MptcpLoopBody(run[r], ClientCommands, oc, rc)]
            /\ env' = Reveal(r, oc)
            /\ UNCHANGED argv

MptcpServerCommand ==
    \E r \in Runs :
        /\ Scheduled(r) /\ run[r].pc = "server"
        /\ \E oc \in EnvChoices(r), rc \in ReturnCodes :
            /\ run' = [run EXCEPT ![r] =
                    MptcpLoopBody(run[r], ServerCommands(argv), oc, rc)]
            /\ env' = Reveal(r, oc)
            /\ UNCHANGED argv

HandlerReturn ==
    \E r \in Runs :
        /\ Scheduled(r) /\ run[r].pc = "return"
        /\ Internal(r, HandlerReturnStep(run[r]))

SysExit ==
    \E r \in Runs :
        /\ Scheduled(r) /\ run[r].pc = "exit"
        /\ Internal(r, SysExitStep(run[r]))

UncaughtException ==
    \E r \in Runs :
        /\ Scheduled(r) /\ run[r].pc = "raised"
        /\ Internal(r, UncaughtStep(run[r]))

Init ==
    /\ argv \in ArgvInputs
    /\ env = <<>>
    /\ run = [r \in {1} |-> InitRun]

\* an invocation that gives no option its mode does not read
OnlyModeOptions(a) ==
    /\ (a.mode # Some("bandwidth")) =>
            a.iface1 = None /\ a.bw1 = None /\ a.iface2 = None /\ a.bw2 = None
    /\ (a.mode # Some("mptcp-server")) =>
            a.subflow_ip = None /\ a.subflow_iface = None

InitNI ==
    /\ argv \in {a \in ArgvInputs : OnlyModeOptions(a)}
    /\ env = <<>>
    /\ run = [r \in {1, 2} |-> InitRun]

Next ==
    \/ ParseArgs
    \/ Validate
    \/ Dispatch
    \/ TcChange
    \/ TcAdd
    \/ MptcpClientCommand
    \/ MptcpServerCommand
    \/ HandlerReturn
    \/ SysExit
    \/ UncaughtException

Spec == Init /\ [][Next]_vars

SpecNI == InitNI /\ [][Next]_vars

-----------------------------------------------------------------------------
(* Vocabulary of the properties *)

Finished(r) == run[r].pc = "done"

Log(r) == run[r].log

\* the command of a log entry completed and wrote nothing to stderr
EntryOk(e) == e.raised = "" /\ e.stderr = ""

OptionMissing(v) == v = None \/ v = Some("")

MissingRequired ==
    \/ /\ argv.mode = Some("bandwidth")
       /\ \E v \in {argv.iface1, argv.bw1, argv.iface2, argv.bw2} : OptionMissing(v)
    \/ /\ argv.mode = Some("mptcp-server")
       /\ \E v \in {argv.subflow_ip, argv.subflow_iface} : OptionMissing(v)

ArgsValid ==
    /\ argv.mode \in {Some("bandwidth"), Some("mptcp-client"), Some("mptcp-server")}
    /\ ~MissingRequired

MptcpMode == argv.mode \in {Some("mptcp-client"), Some("mptcp-server")}

\* the log entries of `tc qdisc <op> dev <iface> ...`
TcEntries(r, op, iface) ==
    {i \in DOMAIN Log(r) :
        /\ Log(r)[i].cmd[1] = "tc"
        /\ Log(r)[i].cmd[3] = op
        /\ Log(r)[i].cmd[5] = iface}

IfaceSucceeded(r, iface) ==
    \/ \E i \in TcEntries(r, "change", iface) : EntryOk(Log(r)[i])
    \/ /\ \E i \in TcEntries(r, "change", iface) : ~EntryOk(Log(r)[i])
       /\ \E j \in TcEntries(r, "add", iface) : EntryOk(Log(r)[j])

IfaceFailedBoth(r, iface) ==
    /\ \E i \in TcEntries(r, "change", iface) : ~EntryOk(Log(r)[i])
    /\ \E j \in TcEntries(r, "add", iface) : ~EntryOk(Log(r)[j])

Banners == {"Configuring MPTCP client mode...", "Configuring MPTCP server mode..."}

UsageLines ==
    {"usage: " \o m :
        m \in {ModeRequiredMsg, InvalidChoiceMsg, BandwidthUsageMsg, ServerUsageMsg}}

\* lines on stdout / stderr that report a command (no banner, no usage error)
NumSuccessLines(r) ==
    Cardinality({i \in DOMAIN run[r].stdout : run[r].stdout[i] \notin Banners})

NumFailureLines(r) ==
    Cardinality({i \in DOMAIN run[r].stderr : run[r].stderr[i] \notin UsageLines})

-----------------------------------------------------------------------------
(* C1 *)

\* C1: when the selected mode lacks a required field (absent or empty), no
\* external command is issued in any state of the run and the run ends with
\* the parser's exit status 2; a command is only ever issued after validation
\* has passed.
C1_UsageFailureBeforeAnyCommand ==
    \A r \in Runs :
        /\ MissingRequired => Log(r) = <<>>
        /\ (MissingRequired /\ Finished(r)) =>
                /\ run[r].exitCode = Some(2)
                /\ Len(run[r].stderr) = 1 /\ run[r].stderr[1] \in UsageLines
                /\ run[r].stdout = <<>>
        /\ Log(r) # <<>> =>
                /\ ArgsValid
                /\ run[r].pc \notin {"parse", "validate", "dispatch"}

C1_Witness ==
    \E r \in Runs :
        /\ argv.mode = Some("bandwidth")
        /\ argv.iface1 = Some("eth0") /\ argv.bw1 = Some("1")
        /\ argv.iface2 = Some("eth1") /\ argv.bw2 = Some("")
        /\ Finished(r) /\ run[r].exitCode = Some(2)

-----------------------------------------------------------------------------
(* C2 *)

\* C2: a command that cannot be launched is handled locally as that command's
\* failure (the caller takes its failure branch) and no error escapes the
\* dispatcher: no run ends with an uncaught exception.
C2_LaunchFailureHandledLocally ==
    \A r \in Runs :
        /\ ~run[r].traceback
        /\ \A i \in DOMAIN Log(r) :
                Log(r)[i].raised # "" => Log(r)[i].branch = "failure"

-----------------------------------------------------------------------------
(* C3 *)

\* the commands issued for one interface: one change, and one add with the
\* same interface and rate if and only if the change failed
InterfaceSegment(s, iface, bandwidth) ==
    /\ Len(s) \in {1, 2}
    /\ s[1].cmd = <<"tc", "qdisc", "change", "dev", iface, "root", "tbf",
                    "rate", bandwidth \o "mbit", "burst", "256mbit",
                    "latency", "600ms">>
    /\ (Len(s) = 2) <=> ~EntryOk(s[1])
    /\ Len(s) = 2 =>
            s[2].cmd = <<"tc", "qdisc", "add", "dev", iface, "root", "tbf",
                         "rate", bandwidth \o "mbit", "burst", "256mbit",
                         "latency", "600ms">>

\* C3: a finished bandwidth-mode run with valid arguments has issued, for the
\* first interface and then for the second, exactly one change and exactly one
\* add iff that change failed, whatever the outcomes of the commands.
C3_BothInterfacesAttempted ==
    \A r \in Runs :
        (Finished(r) /\ ArgsValid /\ argv.mode = Some("bandwidth")) =>
            \E k \in 1..Len(Log(r)) :
                /\ InterfaceSegment(SubSeq(Log(r), 1, k), argv.iface1[1], argv.bw1[1])
                /\ InterfaceSegment(SubSeq(Log(r), k + 1, Len(Log(r))),
                                    argv.iface2[1], argv.bw2[1])

-----------------------------------------------------------------------------
(* C4 *)

\* C4: at the end of a bandwidth-mode run the aggregate is true if both
\* interfaces succeeded (by change, or by add after a failed change) and
\* false if either interface failed both its change and its add.
C4_BandwidthAggregate ==
    \A r \in Runs :
        (Finished(r) /\ ArgsValid /\ argv.mode = Some("bandwidth")) =>
            /\ (IfaceSucceeded(r, argv.iface1[1]) /\ IfaceSucceeded(r, argv.iface2[1]))
                    => run[r].success = Some(TRUE)
            /\ (IfaceFailedBoth(r, argv.iface1[1]) \/ IfaceFailedBoth(r, argv.iface2[1]))
                    => run[r].success = Some(FALSE)

C4_Witness ==
    \E r \in Runs :
        /\ Finished(r) /\ argv.mode = Some("bandwidth")
        /\ IfaceFailedBoth(r, argv.iface1[1])
        /\ IfaceSucceeded(r, argv.iface2[1])
        /\ TcEntries(r, "add", argv.iface2[1]) # {}
        /\ run[r].success = Some(FALSE)

-----------------------------------------------------------------------------
(* C5 *)

\* C5: a finished MPTCP-mode run with valid arguments has issued exactly the
\* mode's two commands, once each and in order, whatever the outcome of the
\* first.
C5_BothMptcpCommandsIssued ==
    \A r \in Runs :
        (Finished(r) /\ ArgsValid /\ MptcpMode) =>
            /\ Len(Log(r)) = 2
            /\ Log(r)[1].cmd = <<"ip", "mptcp", "limits", "set", "subflow", "2">>
            /\ argv.mode = Some("mptcp-client") =>
                    Log(r)[2].cmd =
                        <<"ip", "mptcp", "limits", "set", "add_addr_accepted", "2">>
            /\ argv.mode = Some("mptcp-server") =>
                    Log(r)[2].cmd =
                        <<"ip", "mptcp", "endpoint", "add", argv.subflow_ip[1],
                          "dev", argv.subflow_iface[1], "signal">>

-----------------------------------------------------------------------------
(* C6 *)

\* C6: a finished run whose arguments passed validation exits with 0 or 1,
\* with 0 exactly when the aggregate is success; in the MPTCP modes that is
\* exactly when both commands were issued and neither reported an error.
C6_ExitCodeIsAggregate ==
    \A r \in Runs :
        (Finished(r) /\ ArgsValid) =>
            /\ run[r].exitCode \in {Some(0), Some(1)}
            /\ run[r].exitCode = Some(0) <=> run[r].success = Some(TRUE)
            /\ MptcpMode =>
                    (run[r].exitCode = Some(0) <=>
                        /\ Len(Log(r)) = 2
                        /\ \A i \in DOMAIN Log(r) : EntryOk(Log(r)[i]))

C6_Witness ==
    \E r \in Runs :
        /\ Finished(r) /\ argv.mode = Some("mptcp-server")
        /\ Len(Log(r)) = 2 /\ EntryOk(Log(r)[1]) /\ ~EntryOk(Log(r)[2])
        /\ Log(r)[2].raised = ""
        /\ run[r].exitCode = Some(1)

-----------------------------------------------------------------------------
(* C7 *)

\* C7: a command counts as succeeded exactly when it was launched and its
\* stderr is empty, and the exit statuses play no part: two finished runs
\* over the same arguments, launch results and stderr texts issue the same
\* commands, print the same lines and end with the same aggregate and exit
\* code, whatever exit statuses their commands returned.
C7_ExitStatusIgnored ==
    /\ \A r \in Runs : \A i \in DOMAIN Log(r) :
            (Log(r)[i].branch = "success") <=> EntryOk(Log(r)[i])
    /\ \A p, q \in Runs :
            (Finished(p) /\ Finished(q)) =>
                /\ Log(p) = Log(q)
                /\ run[p].stdout = run[q].stdout
                /\ run[p].stderr = run[q].stderr
                /\ run[p].success = run[q].success
                /\ run[p].exitCode = run[q].exitCode

C7_Witness ==
    /\ Runs = {1, 2}
    /\ Finished(1) /\ Finished(2)
    /\ Len(Log(1)) = 3
    /\ run[1].result.returncode # run[2].result.returncode
    /\ run[1].exitCode = Some(0)

-----------------------------------------------------------------------------
(* C8 *)

-----------------------------------------------------------------------------
(* C9 *)

PositiveRates == {ToString(n) \o "mbit" : n \in 1..(MaxBw + 1)}

\* C9 as stated: every issued tc command carries a rate <N>mbit with N a
\* positive integer.
C9_RateIsPositiveInteger ==
    \A r \in Runs : \A i \in DOMAIN Log(r) :
        Log(r)[i].cmd[1] = "tc" => Log(r)[i].cmd[9] \in PositiveRates

\* C9 amended: every issued tc command carries the rate <bw>mbit where <bw>
\* is the non-empty text given as --bw1 (for the --iface1 interface) or --bw2
\* (for the --iface2 interface), taken as it is.
C9_RateIsGivenText ==
    \A r \in Runs : \A i \in DOMAIN Log(r) :
        Log(r)[i].cmd[1] = "tc" =>
            \/ /\ Log(r)[i].cmd[5] = argv.iface1[1]
               /\ ~OptionMissing(argv.bw1)
               /\ Log(r)[i].cmd[9] = argv.bw1[1] \o "mbit"
            \/ /\ Log(r)[i].cmd[5] = argv.iface2[1]
               /\ ~OptionMissing(argv.bw2)
               /\ Log(r)[i].cmd[9] = argv.bw2[1] \o "mbit"

C9_Witness ==
    \E r \in Runs :
        /\ Len(Log(r)) = 4
        /\ Log(r)[1].cmd[9] = "abcmbit"
        /\ Log(r)[4].cmd[3] = "add" /\ Log(r)[4].cmd[9] = "0mbit"

-----------------------------------------------------------------------------
(* C10 *)

\* C10 as stated: at the end of a run with valid arguments the mode's outcome
\* is true iff every command executed for the mode indicates no error.
C10_OutcomeIffEveryCommandOk ==
    \A r \in Runs :
        (Finished(r) /\ ArgsValid) =>
            (run[r].success = Some(TRUE) <=>
                \A i \in DOMAIN Log(r) : EntryOk(Log(r)[i]))

\* the last command issued for the interface of entry i
LastForInterface(r, i) ==
    \A j \in DOMAIN Log(r) : j > i => Log(r)[j].cmd[5] # Log(r)[i].cmd[5]

\* C10 amended: in the MPTCP modes the outcome is true iff every command
\* executed indicates no error; in bandwidth mode it is true iff, for each
\* interface, the last command issued for it (the change, or the add after a
\* failed change) indicates no error.
C10_OutcomeIffLastCommandsOk ==
    \A r \in Runs :
        (Finished(r) /\ ArgsValid) =>
            /\ MptcpMode =>
                    (run[r].success = Some(TRUE) <=>
                        \A i \in DOMAIN Log(r) : EntryOk(Log(r)[i]))
            /\ argv.mode = Some("bandwidth") =>
                    (run[r].success = Some(TRUE) <=>
                        \A i \in DOMAIN Log(r) :
                            LastForInterface(r, i) => EntryOk(Log(r)[i]))

C10_Witness ==
    \E r \in Runs :
        /\ Finished(r) /\ argv.mode = Some("bandwidth")
        /\ Len(Log(r)) = 3
        /\ EntryOk(Log(r)[1]) /\ ~EntryOk(Log(r)[2]) /\ EntryOk(Log(r)[3])
        /\ run[r].success = Some(TRUE)

====
